---- MODULE Spec2Model ----
(***************************************************************************)
(* Resource lifecycle handlers of the Cassandra Terraform provider         *)
(* (keyspace, table, role, grant): Create / Read / Update / Delete /       *)
(* Exists over one resource's ResourceData and a Cassandra cluster.        *)
(*                                                                         *)
(* One behaviour follows ONE resource (its kind is fixed in Init).  Every  *)
(* handler is one action: each handler is an operator from (ResourceData,  *)
(* cluster, driver faults) to the ResourceData and cluster it leaves, the  *)
(* error it returns and the trace of driver calls it made, nested Read     *)
(* and deferred session.Close() included.                                  *)
(*                                                                         *)
(* The cluster is modelled at the level of the objects the statements      *)
(* address (keyspaces, tables, roles, permissions); the CQL grammar is     *)
(* not modelled.  Strings are TLA+ strings and are taken apart with Len,   *)
(* SubSeq and \o as the Go code takes them apart.                          *)
(* Names reach the cluster exactly as the handler wrote them into the      *)
(* statement; the templates' "upper" is strings.ToUpper.                   *)
(*                                                                         *)
(* The validators, the strategy-options StateFunc and the texts of the     *)
(* statements are pure functions; SpecPure applies them to bounded inputs. *)
(***************************************************************************)
EXTENDS Integers, Sequences, FiniteSets, TLC

VARIABLES
    kind,     \* which resource kind this ResourceData belongs to
    client,   \* provider configuration: PasswordHashAlgorithm
    d,        \* *schema.ResourceData: [id, a] (a = the attributes)
    cl,       \* the cluster: keyspaces, tables, roles, permissions
    open,     \* number of gocql sessions currently open
    last      \* what the last handler call returned and did

vars == <<kind, client, d, cl, open, last>>

(***************************************************************************)
(* Bounds                                                                  *)
(***************************************************************************)
\* at most this many strategy options / table columns in a configuration
MaxOptions == 2
\* at most this many names in a primary key
MaxPk == 2

(***************************************************************************)
(* Strings                                                                 *)
(***************************************************************************)
LowerLetters == "abcdefghijklmnopqrstuvwxyz"
UpperLetters == "ABCDEFGHIJKLMNOPQRSTUVWXYZ"

CharAt(s, i) == SubSeq(s, i, i)

\* the upper-case letter of every lower-case letter
UpperTable == [c \in {CharAt(LowerLetters, i) : i \in 1..26} |->
                  CharAt(UpperLetters, CHOOSE i \in 1..26 : CharAt(LowerLetters, i) = c)]

\* strings.ToUpper on one character
UpperChar(c) == IF c \in DOMAIN UpperTable THEN UpperTable[c] ELSE c

RECURSIVE ToUpper(_)
ToUpper(s) == IF Len(s) = 0 THEN "" ELSE UpperChar(CharAt(s, 1)) \o ToUpper(Tail(s))

\* strings.Contains(s, c) for a one-character c
ContainsChar(s, c) == \E i \in 1..Len(s) : CharAt(s, i) = c

\* strings.HasPrefix / strings.TrimPrefix
HasPrefix(s, p) == Len(s) >= Len(p) /\ SubSeq(s, 1, Len(p)) = p
TrimPrefix(s, p) == IF HasPrefix(s, p) THEN SubSeq(s, Len(p) + 1, Len(s)) ELSE s

\* a split at the last '.' instead of the first
SplitN2_LastDot(s) ==
    IF ContainsChar(s, ".")
    THEN LET i == CHOOSE j \in 1..Len(s) :
                      CharAt(s, j) = "." /\ \A k \in (j+1)..Len(s) : CharAt(s, k) # "."
         IN  <<SubSeq(s, 1, i - 1), SubSeq(s, i + 1, Len(s))>>
    ELSE <<s>>

\* strings.SplitN(s, ".", 2): one part without a '.', else the text before
\* the first '.' and everything after it
SplitN2(s) ==
    IF ContainsChar(s, ".")
    THEN LET i == CHOOSE j \in 1..Len(s) :
                      CharAt(s, j) = "." /\ \A k \in 1..(j-1) : CharAt(s, k) # "."
         IN  <<SubSeq(s, 1, i - 1), SubSeq(s, i + 1, Len(s))>>
    ELSE <<s>>

\* number of occurrences of e in the sequence q
RECURSIVE Count(_, _)
Count(q, e) == IF q = <<>> THEN 0 ELSE (IF Head(q) = e THEN 1 ELSE 0) + Count(Tail(q), e)

(***************************************************************************)
(* Results of a handler call, driver faults, driver trace                  *)
(***************************************************************************)
\* error values ("" is Go's nil)
NoErr == ""
ErrSession == "gocql: unable to create session"
ErrExec == "gocql: statement failed"
ErrQuery == "gocql: query failed"
ErrNoKeyspace == "no keyspace provided"
ErrStrategyOptions == "must specify strategy options"
ErrTableUpdate == "updating table schema is not supported; use taint or recreate the resource"
ErrGrantTable == "resource_type TABLE requires keyspace_name and table_name to be set"
ErrGrantNotFound == "grant not found (it may have been revoked)"

\* Which driver calls fail in this handler call, for reasons of the network
\* or the cluster: the handler's own CreateSession, its Exec, the
\* CreateSession of the Read it calls after a Create/Update, and the
\* metadata or iterator query.
Faults == [session : BOOLEAN, exec : BOOLEAN, session2 : BOOLEAN, query : BOOLEAN]
NoFault == [session |-> FALSE, exec |-> FALSE, session2 |-> FALSE, query |-> FALSE]

\* what a handler returns and leaves behind: ret is the bool of Exists,
\* ev the driver calls in order ("open", "open_failed", "exec", "query",
\* "close")
Result(dd, c, err, ret, ev) == [d |-> dd, cl |-> c, err |-> err, ret |-> ret, ev |-> ev]

SetId(dd, id) == [dd EXCEPT !.id = id]

\* a function without the key k
Without(f, k) == [x \in (DOMAIN f) \ {k} |-> f[x]]
\* a function with k bound to v
With(f, k, v) == (k :> v) @@ f

(***************************************************************************)
(* Keyspace                                                                *)
(***************************************************************************)
Digits == "0123456789"
IsLetter(c) == ContainsChar(LowerLetters, c) \/ ContainsChar(UpperLetters, c)
IsAlnum(c) == IsLetter(c) \/ ContainsChar(Digits, c)
IsWord(c) == IsAlnum(c) \/ c = "_"

\* keyspaceLiteralPattern ^[a-zA-Z0-9][a-zA-Z0-9_]{0,48}$
keyspaceRegex(name) ==
    /\ Len(name) >= 1 /\ Len(name) <= 49
    /\ IsAlnum(CharAt(name, 1))
    /\ \A i \in 2..Len(name) : IsWord(CharAt(name, i))

\* ValidateDiagFunc of "name"
ValidKeyspaceName(name) == keyspaceRegex(name) /\ name # "system"

\* validation.StringInSlice of "replication_strategy"
ValidReplicationStrategy(s) ==
    s \in {"SimpleStrategy", "NetworkTopologyStrategy", "SingleRegionStrategy"}

StrategyPrefix == "org.apache.cassandra.locator."

\* the statement generateCreateOrUpdateKeyspaceQueryString renders, or its
\* error when there are no strategy options
generateCreateOrUpdateKeyspaceQueryString(name, create, replicationStrategy, strategyOptions, durableWrites) ==
    IF Cardinality(DOMAIN strategyOptions) = 0
    THEN [err |-> ErrStrategyOptions, query |-> <<>>]
    ELSE [err |-> NoErr,
          query |-> [action |-> IF create THEN "CREATE" ELSE "ALTER",
                     object |-> "KEYSPACE", name |-> name,
                     class |-> replicationStrategy, options |-> strategyOptions,
                     durable |-> durableWrites]]

\* the cluster executing CREATE / ALTER / DROP KEYSPACE: CREATE of an
\* existing keyspace and ALTER or DROP of a missing one are rejected
ExecKeyspace(c, q) ==
    LET exists == q.name \in DOMAIN c.keyspaces
        meta == [class |-> StrategyPrefix \o q.class, options |-> q.options, durable |-> q.durable]
    IN  CASE q.action = "CREATE" ->
               IF exists THEN [ok |-> FALSE, cl |-> c]
               ELSE [ok |-> TRUE, cl |-> [c EXCEPT !.keyspaces = With(@, q.name, meta)]]
          [] q.action = "ALTER" ->
               IF ~exists THEN [ok |-> FALSE, cl |-> c]
               ELSE [ok |-> TRUE, cl |-> [c EXCEPT !.keyspaces = With(Without(@, q.name), q.name, meta)]]
          [] q.action = "DROP" ->
               IF ~exists THEN [ok |-> FALSE, cl |-> c]
               ELSE [ok |-> TRUE,
                     cl |-> [c EXCEPT !.keyspaces = Without(@, q.name),
                                      !.tables = {t \in @ : t[1] # q.name}]]

\* resourceKeyspaceRead recording the strategy class as the cluster names it,
\* package prefix included
resourceKeyspaceRead_KeepPrefix(dd, c, fSession, fQuery) ==
    LET name == dd.id IN
    IF fSession THEN Result(dd, c, ErrSession, FALSE, <<"open_failed">>)
    ELSE LET ev == <<"open", "query", "close">> IN
         IF fQuery THEN Result(dd, c, ErrQuery, FALSE, ev)
         ELSE IF name = "" THEN Result(dd, c, ErrNoKeyspace, FALSE, ev)
         ELSE IF name \notin DOMAIN c.keyspaces
              THEN Result(SetId(dd, ""), c, NoErr, FALSE, ev)
         ELSE LET km == c.keyspaces[name] IN
              Result([dd EXCEPT !.a.name = name,
                                !.a.replication_strategy = km.class,
                                !.a.durable_writes = km.durable,
                                !.a.strategy_options = km.options],
                     c, NoErr, FALSE, ev)

\* resourceKeyspaceRead reporting a missing keyspace as an error
resourceKeyspaceRead_NotFoundIsError(dd, c, fSession, fQuery) ==
    LET name == dd.id IN
    IF fSession THEN Result(dd, c, ErrSession, FALSE, <<"open_failed">>)
    ELSE LET ev == <<"open", "query", "close">> IN
         IF fQuery THEN Result(dd, c, ErrQuery, FALSE, ev)
         ELSE IF name = "" THEN Result(dd, c, ErrNoKeyspace, FALSE, ev)
         ELSE IF name \notin DOMAIN c.keyspaces
              THEN Result(dd, c, "keyspace does not exist", FALSE, ev)
         ELSE LET km == c.keyspaces[name] IN
              Result([dd EXCEPT !.a.name = name,
                                !.a.replication_strategy = TrimPrefix(km.class, StrategyPrefix),
                                !.a.durable_writes = km.durable,
                                !.a.strategy_options = km.options],
                     c, NoErr, FALSE, ev)

resourceKeyspaceRead(dd, c, fSession, fQuery) ==
    LET name == dd.id IN
    IF fSession THEN Result(dd, c, ErrSession, FALSE, <<"open_failed">>)
    ELSE LET ev == <<"open", "query", "close">> IN
         IF fQuery THEN Result(dd, c, ErrQuery, FALSE, ev)
         ELSE IF name = "" THEN Result(dd, c, ErrNoKeyspace, FALSE, ev)
         ELSE IF name \notin DOMAIN c.keyspaces
              THEN Result(SetId(dd, ""), c, NoErr, FALSE, ev)
         ELSE LET km == c.keyspaces[name] IN
              Result([dd EXCEPT !.a.name = name,
                                !.a.replication_strategy = TrimPrefix(km.class, StrategyPrefix),
                                !.a.durable_writes = km.durable,
                                !.a.strategy_options = km.options],
                     c, NoErr, FALSE, ev)

\* resourceKeyspaceCreate closing its session by hand on the success path
\* only, instead of deferring the Close
resourceKeyspaceCreate_NoDefer(dd, c, f) ==
    LET g == generateCreateOrUpdateKeyspaceQueryString(dd.a.name, TRUE,
                 dd.a.replication_strategy, dd.a.strategy_options, dd.a.durable_writes)
    IN
    IF g.err # NoErr THEN Result(dd, c, g.err, FALSE, <<>>)
    ELSE IF f.session THEN Result(dd, c, ErrSession, FALSE, <<"open_failed">>)
    ELSE LET x == ExecKeyspace(c, g.query) IN
         IF f.exec \/ ~x.ok
         THEN Result(dd, c, ErrExec, FALSE, <<"open", "exec">>)
         ELSE LET r == resourceKeyspaceRead(SetId(dd, dd.a.name), x.cl, f.session2, f.query)
              IN  Result(r.d, r.cl, r.err, FALSE, <<"open", "exec">> \o r.ev \o <<"close">>)

resourceKeyspaceCreate(dd, c, f) ==
    LET g == generateCreateOrUpdateKeyspaceQueryString(dd.a.name, TRUE,
                 dd.a.replication_strategy, dd.a.strategy_options, dd.a.durable_writes)
    IN
    IF g.err # NoErr THEN Result(dd, c, g.err, FALSE, <<>>)
    ELSE IF f.session THEN Result(dd, c, ErrSession, FALSE, <<"open_failed">>)
    ELSE LET x == ExecKeyspace(c, g.query) IN
         IF f.exec \/ ~x.ok
         THEN Result(dd, c, ErrExec, FALSE, <<"open", "exec", "close">>)
         ELSE LET r == resourceKeyspaceRead(SetId(dd, dd.a.name), x.cl, f.session2, f.query)
              IN  Result(r.d, r.cl, r.err, FALSE, <<"open", "exec">> \o r.ev \o <<"close">>)

\* resourceKeyspaceUpdate opening its session before it renders the statement
resourceKeyspaceUpdate_SessionFirst(dd, c, f) ==
    LET g == generateCreateOrUpdateKeyspaceQueryString(dd.a.name, FALSE,
                 dd.a.replication_strategy, dd.a.strategy_options, dd.a.durable_writes)
    IN
    IF f.session THEN Result(dd, c, ErrSession, FALSE, <<"open_failed">>)
    ELSE IF g.err # NoErr THEN Result(dd, c, g.err, FALSE, <<"open", "close">>)
    ELSE LET x == ExecKeyspace(c, g.query) IN
         IF f.exec \/ ~x.ok
         THEN Result(dd, c, ErrExec, FALSE, <<"open", "exec", "close">>)
         ELSE LET r == resourceKeyspaceRead(dd, x.cl, f.session2, f.query)
              IN  Result(r.d, r.cl, r.err, FALSE, <<"open", "exec">> \o r.ev \o <<"close">>)

resourceKeyspaceUpdate(dd, c, f) ==
    LET g == generateCreateOrUpdateKeyspaceQueryString(dd.a.name, FALSE,
                 dd.a.replication_strategy, dd.a.strategy_options, dd.a.durable_writes)
    IN
    IF g.err # NoErr THEN Result(dd, c, g.err, FALSE, <<>>)
    ELSE IF f.session THEN Result(dd, c, ErrSession, FALSE, <<"open_failed">>)
    ELSE LET x == ExecKeyspace(c, g.query) IN
         IF f.exec \/ ~x.ok
         THEN Result(dd, c, ErrExec, FALSE, <<"open", "exec", "close">>)
         ELSE LET r == resourceKeyspaceRead(dd, x.cl, f.session2, f.query)
              IN  Result(r.d, r.cl, r.err, FALSE, <<"open", "exec">> \o r.ev \o <<"close">>)

resourceKeyspaceDelete(dd, c, f) ==
    IF f.session THEN Result(dd, c, ErrSession, FALSE, <<"open_failed">>)
    ELSE LET x == ExecKeyspace(c, [action |-> "DROP", object |-> "KEYSPACE", name |-> dd.a.name]) IN
         IF f.exec \/ ~x.ok
         THEN Result(dd, c, ErrExec, FALSE, <<"open", "exec", "close">>)
         ELSE Result(dd, x.cl, NoErr, FALSE, <<"open", "exec", "close">>)

(***************************************************************************)
(* Table                                                                   *)
(***************************************************************************)
\* validKeyspaceRegex ^[a-zA-Z0-9_]{1,48}$
validKeyspaceRegex(name) ==
    /\ Len(name) >= 1 /\ Len(name) <= 48
    /\ \A i \in 1..Len(name) : IsWord(CharAt(name, i))

\* ValidateFunc of the table's "name"
ValidTableName(tableName) ==
    /\ ~(Len(tableName) = 0 \/ Len(tableName) > 48)
    /\ ~ContainsChar(tableName, "\"")

\* the elements of a sequence
Range(q) == {q[i] : i \in DOMAIN q}

\* the cluster executing CREATE TABLE / DROP TABLE: CREATE needs the
\* keyspace, a new table name and a primary key over declared columns;
\* DROP of a missing table is rejected
ExecTable(c, q) ==
    LET exists == <<q.keyspace, q.name>> \in c.tables IN
    CASE q.action = "CREATE" ->
           IF \/ exists
              \/ q.keyspace \notin DOMAIN c.keyspaces
              \/ ~(Range(q.primary_key) \subseteq DOMAIN q.columns)
           THEN [ok |-> FALSE, cl |-> c]
           ELSE [ok |-> TRUE, cl |-> [c EXCEPT !.tables = @ \cup {<<q.keyspace, q.name>>}]]
      [] q.action = "DROP" ->
           IF ~exists THEN [ok |-> FALSE, cl |-> c]
           ELSE [ok |-> TRUE, cl |-> [c EXCEPT !.tables = @ \ {<<q.keyspace, q.name>>}]]

\* SELECT table_name FROM system_schema.tables WHERE keyspace_name=.. AND
\* table_name=..: whether a row comes back
TableRow(c, keyspace, table) == <<keyspace, table>> \in c.tables

resourceTableRead(dd, c, fSession, fQuery) ==
    LET parts == SplitN2(dd.id) IN
    IF Len(parts) # 2 THEN Result(SetId(dd, ""), c, NoErr, FALSE, <<>>)
    ELSE IF fSession THEN Result(dd, c, ErrSession, FALSE, <<"open_failed">>)
    ELSE LET ev == <<"open", "query", "close">>
             exists == ~fQuery /\ TableRow(c, parts[1], parts[2])
         IN  IF fQuery THEN Result(dd, c, ErrQuery, FALSE, ev)
             ELSE IF ~exists THEN Result(SetId(dd, ""), c, NoErr, FALSE, ev)
             ELSE Result([dd EXCEPT !.a.keyspace_name = parts[1], !.a.name = parts[2]],
                         c, NoErr, FALSE, ev)

resourceTableCreate(dd, c, f) ==
    LET query == [action |-> "CREATE", object |-> "TABLE",
                  keyspace |-> dd.a.keyspace_name, name |-> dd.a.name,
                  columns |-> dd.a.columns, primary_key |-> dd.a.primary_key,
                  comment |-> dd.a.comment]
    IN
    IF f.session THEN Result(dd, c, ErrSession, FALSE, <<"open_failed">>)
    ELSE LET x == ExecTable(c, query) IN
         IF f.exec \/ ~x.ok
         THEN Result(dd, c, "error creating table " \o dd.a.name \o ": " \o ErrExec,
                     FALSE, <<"open", "exec", "close">>)
         ELSE LET r == resourceTableRead(SetId(dd, dd.a.keyspace_name \o "." \o dd.a.name),
                                         x.cl, f.session2, f.query)
              IN  Result(r.d, r.cl, r.err, FALSE, <<"open", "exec">> \o r.ev \o <<"close">>)

\* resourceTableUpdate letting a change of the comment alone through
resourceTableUpdate_CommentAllowed(dd, c, f) ==
    IF dd.a.comment # "" THEN Result(dd, c, NoErr, FALSE, <<"open", "exec", "close">>)
    ELSE Result(dd, c, ErrTableUpdate, FALSE, <<>>)

resourceTableUpdate(dd, c, f) == Result(dd, c, ErrTableUpdate, FALSE, <<>>)

resourceTableDelete(dd, c, f) ==
    LET parts == SplitN2(dd.id) IN
    IF Len(parts) # 2 THEN Result(dd, c, NoErr, FALSE, <<>>)
    ELSE IF f.session THEN Result(dd, c, ErrSession, FALSE, <<"open_failed">>)
    ELSE LET x == ExecTable(c, [action |-> "DROP", object |-> "TABLE",
                                keyspace |-> parts[1], name |-> parts[2]])
         IN  IF f.exec \/ ~x.ok
             THEN Result(dd, c, ErrExec, FALSE, <<"open", "exec", "close">>)
             ELSE Result(dd, x.cl, NoErr, FALSE, <<"open", "exec", "close">>)

\* iter.Close()'s error is dropped: a failed query reads as "no row"
resourceTableExists(dd, c, f) ==
    LET parts == SplitN2(dd.id) IN
    IF Len(parts) # 2 THEN Result(dd, c, NoErr, FALSE, <<>>)
    ELSE IF f.session THEN Result(dd, c, ErrSession, FALSE, <<"open_failed">>)
    ELSE LET exists == ~f.query /\ TableRow(c, parts[1], parts[2])
         IN  Result(dd, c, NoErr, exists, <<"open", "query", "close">>)

(***************************************************************************)
(* Role                                                                    *)
(***************************************************************************)
\* validRoleRegex ^[^"]{1,256}$
validRoleRegex(name) ==
    Len(name) >= 1 /\ Len(name) <= 256 /\ ~ContainsChar(name, "\"")

containsQuote(s) == ContainsChar(s, "\"") \/ ContainsChar(s, "'")

\* the password ValidateFunc asking for 41 characters at least
ValidPassword_Min41(pwd) == ~(Len(pwd) < 41 \/ Len(pwd) > 512 \/ containsQuote(pwd))

\* ValidateFunc of the role's "password"
ValidPassword(pwd) == ~(Len(pwd) < 40 \/ Len(pwd) > 512 \/ containsQuote(pwd))

\* the salted hash the cluster stores for a password, and bcrypt's check
\* of a plaintext against a stored hash
BcryptPrefix == "$2a$10$"
SaltedHash(password) == BcryptPrefix \o password
CompareHashAndPassword(saltedHash, plaintextPwd) == saltedHash = SaltedHash(plaintextPwd)

\* the cluster executing CREATE / ALTER / DROP ROLE: CREATE of an existing
\* role and ALTER or DROP of a missing one are rejected; DROP also removes
\* the role's permissions
ExecRole(c, q) ==
    LET exists == q.name \in DOMAIN c.roles
        row == [can_login |-> q.login, is_superuser |-> q.superuser,
                salted_hash |-> SaltedHash(q.password)]
    IN  CASE q.action = "CREATE" ->
               IF exists THEN [ok |-> FALSE, cl |-> c]
               ELSE [ok |-> TRUE, cl |-> [c EXCEPT !.roles = With(@, q.name, row)]]
          [] q.action = "ALTER" ->
               IF ~exists THEN [ok |-> FALSE, cl |-> c]
               ELSE [ok |-> TRUE, cl |-> [c EXCEPT !.roles = With(Without(@, q.name), q.name, row)]]
          [] q.action = "DROP" ->
               IF ~exists THEN [ok |-> FALSE, cl |-> c]
               ELSE [ok |-> TRUE,
                     cl |-> [c EXCEPT !.roles = Without(@, q.name),
                                      !.perms = {g \in @ : g[1] # q.name}]]

\* readRole: the row of the roles table, an empty name when there is none
readRole(c, roleName, fQuery) ==
    IF fQuery
    THEN [name |-> "", canLogin |-> FALSE, isSuperUser |-> FALSE, saltedHash |-> "", err |-> ErrQuery]
    ELSE IF roleName \in DOMAIN c.roles
    THEN [name |-> roleName, canLogin |-> c.roles[roleName].can_login,
          isSuperUser |-> c.roles[roleName].is_superuser,
          saltedHash |-> c.roles[roleName].salted_hash, err |-> NoErr]
    ELSE [name |-> "", canLogin |-> FALSE, isSuperUser |-> FALSE, saltedHash |-> "", err |-> NoErr]

resourceRoleCreateOrUpdate(dd, c, f, createRole) ==
    LET name == dd.a.name
        superUser == dd.a.super_user
        login == dd.a.login
        password == dd.a.password
    IN
    IF f.session THEN Result(dd, c, ErrSession, FALSE, <<"open_failed">>)
    ELSE LET query == [action |-> IF createRole THEN "CREATE" ELSE "ALTER", object |-> "ROLE",
                       name |-> name, password |-> password, login |-> login,
                       superuser |-> superUser]
             x == ExecRole(c, query)
         IN  IF f.exec \/ ~x.ok
             THEN Result(dd, c, ErrExec, FALSE, <<"open", "exec", "close">>)
             ELSE Result([id |-> name,
                          a |-> [name |-> name, super_user |-> superUser, login |-> login,
                                 password |-> password]],
                         x.cl, NoErr, FALSE, <<"open", "exec", "close">>)

resourceRoleCreate(dd, c, f) == resourceRoleCreateOrUpdate(dd, c, f, TRUE)

resourceRoleUpdate(dd, c, f) == resourceRoleCreateOrUpdate(dd, c, f, FALSE)

\* resourceRoleRead keeping the recorded password whatever the cluster stores
resourceRoleRead_KeepPassword(dd, c, algorithm, fSession, fQuery) ==
    LET name == dd.a.name
        plaintextPwd == dd.a.password
    IN
    IF fSession THEN Result(dd, c, ErrSession, FALSE, <<"open_failed">>)
    ELSE LET ev == <<"open", "query", "close">>
             r == readRole(c, name, fQuery)
         IN  IF r.err # NoErr THEN Result(dd, c, r.err, FALSE, ev)
             ELSE IF r.name = "" THEN Result(SetId(dd, ""), c, NoErr, FALSE, ev)
             ELSE Result([id |-> r.name,
                          a |-> [name |-> r.name, super_user |-> r.isSuperUser,
                                 login |-> r.canLogin, password |-> plaintextPwd]],
                         c, NoErr, FALSE, ev)

resourceRoleRead(dd, c, algorithm, fSession, fQuery) ==
    LET name == dd.a.name
        plaintextPwd == dd.a.password
    IN
    IF fSession THEN Result(dd, c, ErrSession, FALSE, <<"open_failed">>)
    ELSE LET ev == <<"open", "query", "close">>
             r == readRole(c, name, fQuery)
         IN  IF r.err # NoErr THEN Result(dd, c, r.err, FALSE, ev)
             ELSE IF r.name = "" THEN Result(SetId(dd, ""), c, NoErr, FALSE, ev)
             ELSE LET pw == IF r.saltedHash = "" THEN ""
                            ELSE IF algorithm = "bcrypt"
                                 THEN (IF CompareHashAndPassword(r.saltedHash, plaintextPwd)
                                       THEN plaintextPwd ELSE r.saltedHash)
                            ELSE IF algorithm = "sha-512"
                                 THEN (IF r.saltedHash = plaintextPwd
                                       THEN plaintextPwd ELSE r.saltedHash)
                            ELSE (IF r.saltedHash = plaintextPwd
                                  THEN plaintextPwd ELSE r.saltedHash)
                  IN  Result([id |-> r.name,
                              a |-> [name |-> r.name, super_user |-> r.isSuperUser,
                                     login |-> r.canLogin, password |-> pw]],
                             c, NoErr, FALSE, ev)

resourceRoleDelete(dd, c, f) ==
    LET name == dd.id IN
    IF f.session THEN Result(dd, c, ErrSession, FALSE, <<"open_failed">>)
    ELSE LET x == ExecRole(c, [action |-> "DROP", object |-> "ROLE", name |-> name]) IN
         IF f.exec \/ ~x.ok
         THEN Result(dd, c, ErrExec, FALSE, <<"open", "exec", "close">>)
         ELSE Result(dd, x.cl, NoErr, FALSE, <<"open", "exec", "close">>)

resourceRoleExists(dd, c, f) ==
    LET name == dd.a.name IN
    IF f.session THEN Result(dd, c, ErrSession, FALSE, <<"open_failed">>)
    ELSE LET r == readRole(c, name, f.query) IN
         Result(dd, c, r.err, r.err = NoErr /\ r.name = name, <<"open", "query", "close">>)

(***************************************************************************)
(* Grant                                                                   *)
(***************************************************************************)
\* the privileges the cluster knows
Privileges == {"SELECT", "CREATE", "ALTER", "DROP", "MODIFY", "AUTHORIZE",
               "DESCRIBE", "EXECUTE", "ALL"}

\* parseGrantData comparing the resource type without upper-casing it
parseGrantData_CaseSensitive(dd) ==
    LET priv == dd.a.privilege
        grantee == dd.a.grantee
        resType == dd.a.resource_type
        ks == dd.a.keyspace_name
        tbl == dd.a.table_name
    IN  IF resType # "" /\ resType = "TABLE" /\ (ks = "" \/ tbl = "")
        THEN [err |-> ErrGrantTable, grant |-> <<>>]
        ELSE [err |-> NoErr,
              grant |-> [Privilege |-> priv, ResourceType |-> resType, Grantee |-> grantee,
                         KeyspaceName |-> ks, TableName |-> tbl]]

\* parseGrantData: the Grant, or the error for a TABLE without keyspace
\* and table name
parseGrantData(dd) ==
    LET priv == dd.a.privilege
        grantee == dd.a.grantee
        resType == dd.a.resource_type
        ks == dd.a.keyspace_name
        tbl == dd.a.table_name
    IN  IF resType # "" /\ ToUpper(resType) = "TABLE" /\ (ks = "" \/ tbl = "")
        THEN [err |-> ErrGrantTable, grant |-> <<>>]
        ELSE [err |-> NoErr,
              grant |-> [Privilege |-> priv, ResourceType |-> resType, Grantee |-> grantee,
                         KeyspaceName |-> ks, TableName |-> tbl]]

\* the permission a GRANT / REVOKE / LIST statement rendered from the
\* templates addresses
Permission(grant) ==
    <<grant.Grantee, ToUpper(grant.ResourceType), grant.KeyspaceName, grant.TableName,
      ToUpper(grant.Privilege)>>

\* the cluster executing GRANT / REVOKE / LIST: an unknown privilege or a
\* missing grantee role is rejected; revoking a permission that is not
\* there is not an error
ExecGrant(c, action, grant) ==
    LET p == Permission(grant) IN
    IF ~(p[5] \in Privileges /\ p[1] \in DOMAIN c.roles)
    THEN [ok |-> FALSE, cl |-> c, rows |-> 0]
    ELSE CASE action = "GRANT" -> [ok |-> TRUE, cl |-> [c EXCEPT !.perms = @ \cup {p}], rows |-> 0]
           [] action = "REVOKE" -> [ok |-> TRUE, cl |-> [c EXCEPT !.perms = @ \ {p}], rows |-> 0]
           [] action = "LIST" -> [ok |-> TRUE, cl |-> c, rows |-> IF p \in c.perms THEN 1 ELSE 0]

resourceGrantExists(dd, c, fSession, fQuery) ==
    LET g == parseGrantData(dd) IN
    IF g.err # NoErr THEN Result(dd, c, g.err, FALSE, <<>>)
    ELSE IF fSession THEN Result(dd, c, ErrSession, FALSE, <<"open_failed">>)
    ELSE LET x == ExecGrant(c, "LIST", g.grant)
             count == IF fQuery \/ ~x.ok THEN 0 ELSE x.rows
             errClose == IF fQuery \/ ~x.ok THEN ErrQuery ELSE NoErr
         IN  Result(dd, c, errClose, count > 0, <<"open", "query", "close">>)

resourceGrantRead(dd, c, fSession, fQuery) ==
    LET e == resourceGrantExists(dd, c, fSession, fQuery) IN
    IF e.err # NoErr THEN Result(dd, c, e.err, FALSE, e.ev)
    ELSE IF ~e.ret THEN Result(dd, c, ErrGrantNotFound, FALSE, e.ev)
    ELSE LET g == parseGrantData(dd) IN
         IF g.err # NoErr THEN Result(dd, c, g.err, FALSE, e.ev)
         ELSE Result([dd EXCEPT !.a.privilege = g.grant.Privilege,
                                !.a.grantee = g.grant.Grantee,
                                !.a.resource_type = g.grant.ResourceType,
                                !.a.keyspace_name = g.grant.KeyspaceName,
                                !.a.table_name = g.grant.TableName],
                     c, NoErr, FALSE, e.ev)

\* the composite id resourceGrantCreate records
GrantIdText(grant) ==
    grant.Grantee \o "|" \o ToUpper(grant.ResourceType) \o "|" \o grant.KeyspaceName \o "|"
        \o grant.TableName \o "|" \o ToUpper(grant.Privilege)

\* resourceGrantCreate building the id from the fields as written, without
\* upper-casing the resource type and the privilege
resourceGrantCreate_RawId(dd, c, f) ==
    LET g == parseGrantData(dd) IN
    IF g.err # NoErr THEN Result(dd, c, g.err, FALSE, <<>>)
    ELSE IF f.session THEN Result(dd, c, ErrSession, FALSE, <<"open_failed">>)
    ELSE LET x == ExecGrant(c, "GRANT", g.grant) IN
         IF f.exec \/ ~x.ok
         THEN Result(dd, c, ErrExec, FALSE, <<"open", "exec", "close">>)
         ELSE LET id == g.grant.Grantee \o "|" \o g.grant.ResourceType \o "|"
                        \o g.grant.KeyspaceName \o "|" \o g.grant.TableName \o "|"
                        \o g.grant.Privilege
                  r == resourceGrantRead(SetId(dd, id), x.cl, f.session2, f.query)
              IN  Result(r.d, r.cl, r.err, FALSE, <<"open", "exec">> \o r.ev \o <<"close">>)

resourceGrantCreate(dd, c, f) ==
    LET g == parseGrantData(dd) IN
    IF g.err # NoErr THEN Result(dd, c, g.err, FALSE, <<>>)
    ELSE IF f.session THEN Result(dd, c, ErrSession, FALSE, <<"open_failed">>)
    ELSE LET x == ExecGrant(c, "GRANT", g.grant) IN
         IF f.exec \/ ~x.ok
         THEN Result(dd, c, ErrExec, FALSE, <<"open", "exec", "close">>)
         ELSE LET id == GrantIdText(g.grant)
                  r == resourceGrantRead(SetId(dd, id), x.cl, f.session2, f.query)
              IN  Result(r.d, r.cl, r.err, FALSE, <<"open", "exec">> \o r.ev \o <<"close">>)

\* resourceGrantDelete executing the LIST template instead of the REVOKE one
resourceGrantDelete_ListTemplate(dd, c, f) ==
    LET g == parseGrantData(dd) IN
    IF g.err # NoErr THEN Result(dd, c, g.err, FALSE, <<>>)
    ELSE IF f.session THEN Result(dd, c, ErrSession, FALSE, <<"open_failed">>)
    ELSE LET x == ExecGrant(c, "LIST", g.grant) IN
         IF f.exec \/ ~x.ok
         THEN Result(dd, c, ErrExec, FALSE, <<"open", "exec", "close">>)
         ELSE Result(dd, x.cl, NoErr, FALSE, <<"open", "exec", "close">>)

resourceGrantDelete(dd, c, f) ==
    LET g == parseGrantData(dd) IN
    IF g.err # NoErr THEN Result(dd, c, g.err, FALSE, <<>>)
    ELSE IF f.session THEN Result(dd, c, ErrSession, FALSE, <<"open_failed">>)
    ELSE LET x == ExecGrant(c, "REVOKE", g.grant) IN
         IF f.exec \/ ~x.ok
         THEN Result(dd, c, ErrExec, FALSE, <<"open", "exec", "close">>)
         ELSE Result(dd, x.cl, NoErr, FALSE, <<"open", "exec", "close">>)

(***************************************************************************)
(* Configurations the schema validators let through                        *)
(***************************************************************************)
Kinds == {"keyspace", "table", "role", "grant"}

OptionKeys == <<"replication_factor", "dc1", "dc2", "dc3">>
ColumnNames == <<"id", "v", "w", "x">>

\* option maps with 0..MaxOptions entries
OptionMaps == {[key \in {OptionKeys[i] : i \in 1..k} |-> "1"] : k \in 0..MaxOptions}

KeyspaceConfigs ==
    {cfg \in [name : {"test", "system", "_test"},
              replication_strategy : {"SimpleStrategy", "NetworkTopologyStrategy", "OldStrategy"},
              strategy_options : OptionMaps,
              durable_writes : BOOLEAN] :
        ValidKeyspaceName(cfg.name) /\ ValidReplicationStrategy(cfg.replication_strategy)}

\* column maps and primary keys with 1..MaxPk names
ColumnMaps == {[col \in {ColumnNames[i] : i \in 1..k} |-> "text"] : k \in 1..MaxPk}
PrimaryKeys == {SubSeq(ColumnNames, 1, k) : k \in 1..MaxPk}

TableConfigs ==
    {cfg \in [keyspace_name : {"ks", "k.s"},
              name : {"t", "a.b", "t\"", ""},
              columns : ColumnMaps,
              primary_key : PrimaryKeys,
              comment : {"", "c"}] :
        validKeyspaceRegex(cfg.keyspace_name) /\ ValidTableName(cfg.name)}

Password1 == "A123456789B123456789C123456789D123456789"
Password2 == "Z123456789B123456789C123456789D123456789"

RoleConfigs ==
    {cfg \in [name : {"test_role", "must\"have", ""},
              super_user : BOOLEAN,
              login : BOOLEAN,
              password : {Password1, Password2, "shortpass", "\"insecure\""}] :
        validRoleRegex(cfg.name) /\ ValidPassword(cfg.password)}

\* the grant schema has no validators
GrantConfigs ==
    [privilege : {"select", "SELECT", "INVALID_PRIVILEGE"},
     grantee : {"migration"},
     resource_type : {"keyspace", "table", "Table"},
     keyspace_name : {"", "ks"},
     table_name : {"", "t"}]

Configs(k) ==
    CASE k = "keyspace" -> KeyspaceConfigs
      [] k = "table" -> TableConfigs
      [] k = "role" -> RoleConfigs
      [] k = "grant" -> GrantConfigs

\* whether two configurations name the same object (the attributes that
\* make the identity; all of them are ForceNew)
SameObject(k, a, b) ==
    CASE k = "keyspace" -> a.name = b.name
      [] k = "table" -> a.keyspace_name = b.keyspace_name /\ a.name = b.name
      [] k = "role" -> a.name = b.name
      [] k = "grant" -> a = b

\* whether the object the resource stands for is in the cluster
Present(k, dd, c) ==
    CASE k = "keyspace" -> dd.a.name \in DOMAIN c.keyspaces
      [] k = "table" -> <<dd.a.keyspace_name, dd.a.name>> \in c.tables
      [] k = "role" -> dd.a.name \in DOMAIN c.roles
      [] k = "grant" -> <<dd.a.grantee, ToUpper(dd.a.resource_type), dd.a.keyspace_name,
                          dd.a.table_name, ToUpper(dd.a.privilege)>> \in c.perms

(***************************************************************************)
(* State machine                                                           *)
(***************************************************************************)
DefaultKeyspace ==
    [class |-> StrategyPrefix \o "SimpleStrategy",
     options |-> [key \in {OptionKeys[1]} |-> "1"], durable |-> TRUE]

InitCluster ==
    [keyspaces |-> [n \in {"ks"} |-> DefaultKeyspace],
     tables |-> {},
     roles |-> [n \in {"migration"} |->
                   [can_login |-> TRUE, is_superuser |-> FALSE, salted_hash |-> ""]],
     perms |-> {}]

NoCall(dd) ==
    [op |-> "none", err |-> NoErr, ret |-> FALSE, ev |-> <<>>, fault |-> FALSE,
     pre |-> dd, absent |-> FALSE, after |-> "none"]

Init ==
    /\ kind \in Kinds
    /\ client \in [PasswordHashAlgorithm :
                      IF kind = "role" THEN {"bcrypt", "sha-512", "plain"} ELSE {"bcrypt"}]
    /\ d \in [id : {""}, a : Configs(kind)]
    /\ cl = InitCluster
    /\ open = 0
    /\ last = NoCall(d)

\* where the resource is in its lifecycle after a handler call: "created"
\* after a Create without error, "deleted" after a Delete without error that
\* followed it, with nothing but Read and Exists calls in between and after
After(op, err, before) ==
    CASE op = "Create" /\ err = NoErr -> "created"
      [] op = "Delete" /\ err = NoErr /\ before = "created" -> "deleted"
      [] op \in {"Read", "Exists"} -> before
      [] OTHER -> "none"

\* a handler call: what it leaves in the ResourceData and the cluster, and
\* every session it opened or closed
Call(op, r, f) ==
    /\ d' = r.d
    /\ cl' = r.cl
    /\ open' = open + Count(r.ev, "open") - Count(r.ev, "close")
    /\ last' = [op |-> op, err |-> r.err, ret |-> r.ret, ev |-> r.ev, fault |-> f # NoFault,
                pre |-> d, absent |-> ~Present(kind, d, cl),
                after |-> After(op, r.err, last.after)]
    /\ UNCHANGED <<kind, client>>

\* Create and Update get the attributes of a validated configuration
Planned == d.a \in Configs(kind)

\* faults of a handler that makes one CreateSession and one Exec / query
ExecFaults == {f \in Faults : ~f.session2 /\ ~f.query}
QueryFaults == {f \in Faults : ~f.session2 /\ ~f.exec}

KeyspaceCreate == kind = "keyspace" /\ Planned /\ \E f \in Faults : Call("Create", resourceKeyspaceCreate(d, cl, f), f)
KeyspaceRead == kind = "keyspace" /\ \E f \in QueryFaults : Call("Read", resourceKeyspaceRead(d, cl, f.session, f.query), f)
KeyspaceUpdate == kind = "keyspace" /\ Planned /\ \E f \in Faults : Call("Update", resourceKeyspaceUpdate(d, cl, f), f)
KeyspaceDelete == kind = "keyspace" /\ \E f \in ExecFaults : Call("Delete", resourceKeyspaceDelete(d, cl, f), f)

TableCreate == kind = "table" /\ Planned /\ \E f \in Faults : Call("Create", resourceTableCreate(d, cl, f), f)
TableRead == kind = "table" /\ \E f \in QueryFaults : Call("Read", resourceTableRead(d, cl, f.session, f.query), f)
TableUpdate == kind = "table" /\ Planned /\ Call("Update", resourceTableUpdate(d, cl, NoFault), NoFault)
TableDelete == kind = "table" /\ \E f \in ExecFaults : Call("Delete", resourceTableDelete(d, cl, f), f)
TableExists == kind = "table" /\ \E f \in QueryFaults : Call("Exists", resourceTableExists(d, cl, f), f)

RoleCreate == kind = "role" /\ Planned /\ \E f \in ExecFaults : Call("Create", resourceRoleCreate(d, cl, f), f)
RoleRead == kind = "role" /\ \E f \in QueryFaults : Call("Read", resourceRoleRead(d, cl, client.PasswordHashAlgorithm, f.session, f.query), f)
RoleUpdate == kind = "role" /\ Planned /\ \E f \in ExecFaults : Call("Update", resourceRoleUpdate(d, cl, f), f)
RoleDelete == kind = "role" /\ \E f \in ExecFaults : Call("Delete", resourceRoleDelete(d, cl, f), f)
RoleExists == kind = "role" /\ \E f \in QueryFaults : Call("Exists", resourceRoleExists(d, cl, f), f)

GrantCreate == kind = "grant" /\ Planned /\ \E f \in Faults : Call("Create", resourceGrantCreate(d, cl, f), f)
GrantRead == kind = "grant" /\ \E f \in QueryFaults : Call("Read", resourceGrantRead(d, cl, f.session, f.query), f)
GrantDelete == kind = "grant" /\ \E f \in ExecFaults : Call("Delete", resourceGrantDelete(d, cl, f), f)
GrantExists == kind = "grant" /\ \E f \in QueryFaults : Call("Exists", resourceGrantExists(d, cl, f.session, f.query), f)

\* the host hands the handlers a fresh ResourceData (no id yet) built from
\* the configuration of the resource
NewResource ==
    /\ \E cfg \in Configs(kind) : SameObject(kind, cfg, d.a) /\ d' = [id |-> "", a |-> cfg]
    /\ last' = NoCall(d')
    /\ UNCHANGED <<kind, client, cl, open>>

\* the host hands Update the planned attributes of a managed resource
Change ==
    /\ d.id # ""
    /\ \E cfg \in Configs(kind) :
          /\ cfg # d.a
          /\ SameObject(kind, cfg, d.a)
          /\ d' = [d EXCEPT !.a = cfg]
    /\ last' = NoCall(d')
    /\ UNCHANGED <<kind, client, cl, open>>

\* somebody else drops the object behind the resource
OutOfBandDrop ==
    /\ Present(kind, d, cl)
    /\ cl' = CASE kind = "keyspace" -> [cl EXCEPT !.keyspaces = Without(@, d.a.name)]
               [] kind = "table" -> [cl EXCEPT !.tables = @ \ {<<d.a.keyspace_name, d.a.name>>}]
               [] kind = "role" -> [cl EXCEPT !.roles = Without(@, d.a.name)]
               [] kind = "grant" -> [cl EXCEPT !.perms = {}]
    /\ last' = NoCall(d)
    /\ UNCHANGED <<kind, client, d, open>>

\* somebody else creates an object under the resource's name
OutOfBandCreate ==
    /\ ~Present(kind, d, cl)
    /\ \/ kind = "keyspace" /\ cl' = [cl EXCEPT !.keyspaces = With(@, d.a.name, DefaultKeyspace)]
       \/ kind = "table" /\ cl' = [cl EXCEPT !.tables = @ \cup {<<d.a.keyspace_name, d.a.name>>}]
       \/ kind = "role" /\ \E h \in {"", SaltedHash(Password1)} :
              cl' = [cl EXCEPT !.roles = With(@, d.a.name,
                        [can_login |-> TRUE, is_superuser |-> FALSE, salted_hash |-> h])]
       \/ kind = "grant" /\ cl' = [cl EXCEPT !.perms = @ \cup
              {<<d.a.grantee, ToUpper(d.a.resource_type), d.a.keyspace_name, d.a.table_name,
                 ToUpper(d.a.privilege)>>}]
    /\ last' = NoCall(d)
    /\ UNCHANGED <<kind, client, d, open>>

Next ==
    \/ KeyspaceCreate \/ KeyspaceRead \/ KeyspaceUpdate \/ KeyspaceDelete
    \/ TableCreate \/ TableRead \/ TableUpdate \/ TableDelete \/ TableExists
    \/ RoleCreate \/ RoleRead \/ RoleUpdate \/ RoleDelete \/ RoleExists
    \/ GrantCreate \/ GrantRead \/ GrantDelete \/ GrantExists
    \/ NewResource \/ Change \/ OutOfBandDrop \/ OutOfBandCreate

Spec == Init /\ [][Next]_vars

TypeOK ==
    /\ kind \in Kinds
    /\ open \in Nat
    /\ last.op \in {"none", "Create", "Read", "Update", "Delete", "Exists"}

(***************************************************************************)
(* Properties                                                              *)
(***************************************************************************)
\* the handler that ran last was called on a managed resource (it had an
\* id) whose object was missing from the cluster, and the driver did not fail
CalledOnMissing(op) ==
    last.op = op /\ last.pre.id # "" /\ last.absent /\ ~last.fault

\* C1: Read of a managed keyspace, table or role whose object is missing
\* from the cluster returns no error and leaves the id empty (the driver
\* itself not failing).
C1_ReadClearsMissing ==
    (kind \in {"keyspace", "table", "role"} /\ CalledOnMissing("Read"))
        => (last.err = NoErr /\ d.id = "")

C1_Witness ==
    kind = "keyspace" /\ CalledOnMissing("Read") /\ d.id = "" /\ last.pre.id = "test"

\* C2: Read of a managed grant whose permission is no longer in the
\* cluster returns no error and leaves the id empty.
C2_GrantReadClearsMissing ==
    (kind = "grant" /\ CalledOnMissing("Read")) => (last.err = NoErr /\ d.id = "")

\* C3: Delete of a resource whose object is already missing from the
\* cluster returns no error, for every resource kind.
C3_DeleteIdempotent ==
    (last.op = "Delete" /\ last.absent /\ ~last.fault) => last.err = NoErr

\* C4: the id goes from empty to non-empty only in a Create that returns
\* no error; no other handler sets an id on a resource without one.
C4_OnlyCreateSetsId ==
    [][(d.id = "" /\ d'.id # "") => (last'.op = "Create" /\ last'.err = NoErr)]_vars

\* C5: every session a handler opened is closed when it returns, on every
\* path: no session is open between handler calls.
C5_SessionsClosed ==
    open = 0 /\ Count(last.ev, "open") = Count(last.ev, "close")

\* a Create whose nested Read could not get its session: the error path
\* with the handler's own session open
C5_Witness ==
    /\ last.op = "Create" /\ last.err = ErrSession
    /\ last.ev = <<"open", "exec", "open_failed", "close">>

\* C6: a keyspace Create or Update with no strategy options, and a grant
\* Create, Read, Delete or Exists of resource type TABLE without keyspace
\* or table name, fail before any driver call: no session, no statement.
C6_ValidationBeforeNetwork ==
    LET emptyOptions ==
            /\ kind = "keyspace" /\ last.op \in {"Create", "Update"}
            /\ DOMAIN last.pre.a.strategy_options = {}
        tableWithoutName ==
            /\ kind = "grant" /\ last.op \in {"Create", "Read", "Delete", "Exists"}
            /\ ToUpper(last.pre.a.resource_type) = "TABLE"
            /\ (last.pre.a.keyspace_name = "" \/ last.pre.a.table_name = "")
    IN  /\ emptyOptions => (last.err = ErrStrategyOptions /\ last.ev = <<>>)
        /\ tableWithoutName => (last.err = ErrGrantTable /\ last.ev = <<>>)

\* an Update without strategy options that was called with driver faults
\* pending: none of them was reached
C6_Witness ==
    /\ kind = "keyspace" /\ last.op = "Update" /\ last.fault
    /\ DOMAIN last.pre.a.strategy_options = {} /\ last.err = ErrStrategyOptions

\* C7: Update of a table fails with the fixed error, makes no driver call
\* and changes neither the ResourceData nor the cluster.
C7_TableUpdateUnsupported ==
    [][(kind = "table" /\ last'.op = "Update")
          => (/\ last'.err = ErrTableUpdate /\ last'.ev = <<>>
              /\ d' = d /\ cl' = cl /\ open' = open)]_vars

\* an Update of a managed table that has a comment
C7_Witness ==
    kind = "table" /\ last.op = "Update" /\ d.id = "ks.a.b" /\ d.a.comment # ""

\* the id the claim expects for a configuration
ExpectedId(k, a) ==
    CASE k = "keyspace" -> a.name
      [] k = "role" -> a.name
      [] k = "table" -> a.keyspace_name \o "." \o a.name
      [] k = "grant" -> a.grantee \o "|" \o ToUpper(a.resource_type) \o "|" \o a.keyspace_name
                        \o "|" \o a.table_name \o "|" \o ToUpper(a.privilege)

\* C8: after a Create that returns no error the id is the name (keyspace,
\* role), keyspace.table (table), or the composite of grantee, resource
\* type, keyspace, table and privilege (grant) of its configuration.
C8_CreateSetsIdentity ==
    (last.op = "Create" /\ last.err = NoErr) => d.id = ExpectedId(kind, last.pre.a)

C8_Witness ==
    /\ kind = "grant" /\ last.op = "Create" /\ last.err = NoErr
    /\ last.pre.a.privilege = "select" /\ last.pre.a.resource_type = "Table"
    /\ d.id = "migration|TABLE|ks|t|SELECT"

\* the error the acceptance test expects for an unknown privilege
ErrInvalidPrivilege == "Invalid privilege type provided"

\* C9: Create of a grant with a privilege outside the allowed set fails
\* with the invalid-privilege error, and no GRANT statement is executed.
C9_InvalidPrivilegeRejected ==
    (kind = "grant" /\ last.op = "Create" /\ ToUpper(last.pre.a.privilege) \notin Privileges)
        => (last.err = ErrInvalidPrivilege /\ "exec" \notin Range(last.ev))

\* C10: a grant of resource type TABLE, in any letter case, is rejected
\* with the TABLE error exactly when keyspace_name or table_name is empty.
C10_GrantTableValidation ==
    (kind = "grant" /\ last.op \in {"Create", "Read", "Delete", "Exists"}
        /\ ToUpper(last.pre.a.resource_type) = "TABLE")
        => ((last.pre.a.keyspace_name = "" \/ last.pre.a.table_name = "")
               <=> last.err = ErrGrantTable)

\* a mixed-case TABLE grant without table name, rejected
C10_Witness ==
    /\ kind = "grant" /\ last.op = "Exists" /\ last.pre.a.resource_type = "Table"
    /\ last.pre.a.keyspace_name = "ks" /\ last.pre.a.table_name = ""
    /\ last.err = ErrGrantTable

\* C11: a grant whose resource type is KEYSPACE and whose keyspace_name is
\* empty is rejected by every grant handler before any statement is
\* rendered and executed, and gets no id.
C11_KeyspaceGrantNeedsKeyspace ==
    (kind = "grant" /\ last.op \in {"Create", "Read", "Delete", "Exists"}
        /\ ToUpper(last.pre.a.resource_type) = "KEYSPACE" /\ last.pre.a.keyspace_name = "")
        => (last.err # NoErr /\ last.ev = <<>> /\ d.id = last.pre.id)

\* C12: a grant created without error and then deleted without error, the
\* cluster untouched otherwise: Exists returns false (and no error unless
\* the driver fails).
C12_DeletedGrantDoesNotExist ==
    (kind = "grant" /\ last.op = "Exists" /\ last.after = "deleted")
        => (~last.ret /\ (~last.fault => last.err = NoErr))

C12_Witness ==
    /\ kind = "grant" /\ last.op = "Exists" /\ last.after = "deleted"
    /\ ~last.fault /\ ~last.ret /\ last.err = NoErr
    /\ d.a.privilege = "select" /\ d.a.resource_type = "keyspace" /\ d.a.keyspace_name = "ks"

\* C13: keyspace create/read round trip. After a Create without error and
\* nothing since but Reads, a Create or Read without error leaves the state
\* it found: name n (the id), the strategy s without the package prefix the
\* cluster stores it under, the options o and durable_writes w.
C13_KeyspaceRoundTrip ==
    (kind = "keyspace" /\ last.after = "created" /\ last.op \in {"Create", "Read"}
        /\ last.err = NoErr)
        => /\ d.a = last.pre.a
           /\ d.id = d.a.name
           /\ ~HasPrefix(d.a.replication_strategy, StrategyPrefix)
           /\ d.a.name \in DOMAIN cl.keyspaces
           /\ cl.keyspaces[d.a.name] =
                 [class |-> StrategyPrefix \o d.a.replication_strategy,
                  options |-> d.a.strategy_options, durable |-> d.a.durable_writes]

C13_Witness ==
    /\ kind = "keyspace" /\ last.after = "created" /\ last.op = "Read" /\ last.err = NoErr
    /\ d.a.name = "test" /\ d.a.replication_strategy = "NetworkTopologyStrategy"
    /\ Cardinality(DOMAIN d.a.strategy_options) = MaxOptions /\ ~d.a.durable_writes

\* the provider's check of a stored hash against a recorded password: the
\* bcrypt comparison, or plain equality for any other configured algorithm
C14_HashMatches(algorithm, saltedHash, pwd) ==
    IF algorithm = "bcrypt" THEN saltedHash = SaltedHash(pwd) ELSE saltedHash = pwd

\* the hash the cluster stores for the role the resource stands for
C14_StoredHash == cl.roles[last.pre.a.name].salted_hash

\* a Read without error found the role in the cluster with a password set
C14_ReadOfRoleWithPassword ==
    /\ kind = "role" /\ last.op = "Read" /\ last.err = NoErr /\ ~last.absent
    /\ C14_StoredHash # ""

\* C14: after Read of an existing role that has a password, login and
\* super_user in state are the cluster's, and the password in state is not
\* empty: it is the recorded password exactly when the stored hash matches
\* it under the configured algorithm, and the stored hash otherwise (which
\* differs from a recorded password that is one of the planned plaintexts).
C14_RoleReadPassword ==
    C14_ReadOfRoleWithPassword
        => /\ d.a.login = cl.roles[d.a.name].can_login
           /\ d.a.super_user = cl.roles[d.a.name].is_superuser
           /\ d.a.password # ""
           /\ IF C14_HashMatches(client.PasswordHashAlgorithm, C14_StoredHash, last.pre.a.password)
              THEN d.a.password = last.pre.a.password
              ELSE /\ d.a.password = C14_StoredHash
                   /\ last.pre.a \in RoleConfigs => d.a.password # last.pre.a.password

\* a bcrypt Read that found the recorded plaintext matching
C14_Witness ==
    /\ C14_ReadOfRoleWithPassword /\ client.PasswordHashAlgorithm = "bcrypt"
    /\ last.after = "created" /\ d.a.password = Password1 /\ d.a.login /\ ~d.a.super_user

\* a bcrypt Read that found another password's hash and recorded the hash
C14_DriftWitness ==
    /\ C14_ReadOfRoleWithPassword /\ client.PasswordHashAlgorithm = "bcrypt"
    /\ last.pre.a.password = Password2 /\ d.a.password = SaltedHash(Password1)

(***************************************************************************)
(* Validators, the strategy-options StateFunc and the statement texts:     *)
(* pure functions, applied to inputs drawn from bounded sets.  A behaviour *)
(* of SpecPure follows one function (kind); d is the input of the last     *)
(* application and last its result.                                        *)
(***************************************************************************)
\* printable ASCII in byte order (32..95 and 97..126), and the byte value
\* of each character
AsciiLow == " !\"#$%&'()*+,-./0123456789:;<=>?@ABCDEFGHIJKLMNOPQRSTUVWXYZ[\\]^_"
AsciiHigh == "abcdefghijklmnopqrstuvwxyz{|}~"

OrdTable ==
    [c \in {CharAt(AsciiLow, i) : i \in 1..Len(AsciiLow)}
             \cup {CharAt(AsciiHigh, i) : i \in 1..Len(AsciiHigh)} |->
        IF \E i \in 1..Len(AsciiLow) : CharAt(AsciiLow, i) = c
        THEN 31 + (CHOOSE i \in 1..Len(AsciiLow) : CharAt(AsciiLow, i) = c)
        ELSE 96 + (CHOOSE i \in 1..Len(AsciiHigh) : CharAt(AsciiHigh, i) = c)]

\* Go's < on strings: byte-wise lexicographic
RECURSIVE StrLess(_, _)
StrLess(a, b) ==
    IF Len(b) = 0 THEN FALSE
    ELSE IF Len(a) = 0 THEN TRUE
    ELSE IF CharAt(a, 1) = CharAt(b, 1) THEN StrLess(Tail(a), Tail(b))
    ELSE OrdTable[CharAt(a, 1)] < OrdTable[CharAt(b, 1)]

\* a sorted sequence with one more string put in its place
RECURSIVE InsertSorted(_, _)
InsertSorted(sorted, x) ==
    IF Len(sorted) = 0 THEN <<x>>
    ELSE IF StrLess(x, Head(sorted)) THEN <<x>> \o sorted
    ELSE <<Head(sorted)>> \o InsertSorted(Tail(sorted), x)

\* sort.Strings leaving the slice in the order it was filled
sortStrings_Unsorted(keys) == keys

\* sort.Strings
RECURSIVE sortStrings(_)
sortStrings(keys) ==
    IF Len(keys) = 0 THEN <<>> ELSE InsertSorted(sortStrings(Tail(keys)), Head(keys))

\* strings.Join
RECURSIVE Join(_, _)
Join(elems, sep) ==
    IF Len(elems) = 0 THEN ""
    ELSE IF Len(elems) = 1 THEN Head(elems)
    ELSE Head(elems) \o sep \o Join(Tail(elems), sep)

\* fmt's %q on printable ASCII: the string in double quotes, '"' and '\'
\* escaped with a backslash
RECURSIVE Escape(_)
Escape(str) ==
    IF Len(str) = 0 THEN ""
    ELSE (IF CharAt(str, 1) \in {"\"", "\\"} THEN "\\" \o CharAt(str, 1) ELSE CharAt(str, 1))
         \o Escape(Tail(str))

strconvQuote(str) == "\"" \o Escape(str) \o "\""

\* fmt's %t
FormatBool(b) == IF b THEN "true" ELSE "false"

\* hash: the hex SHA-256 digest of s, taken as collision-free: a tag and
\* the digested text stand for the digest
hash(str) == "sha256:" \o str

\* StateFunc of "strategy_options"; order is the order in which range
\* enumerates the map's keys
strategyOptionsStateFunc(strategyOptions, order) ==
    LET keys == [i \in 1..Len(order) |->
                    strconvQuote(order[i]) \o "=" \o strconvQuote(strategyOptions[order[i]])]
    IN  hash(Join(sortStrings(keys), ", "))

\* ValidateFunc of the provider's "port"
ValidPort(port) == ~(port <= 0 \/ port >= 65535)

boolToAction(create) == IF create THEN "CREATE" ELSE "ALTER"

\* the ", 'key' : 'value'" parts of the keyspace statement, in range order
RECURSIVE StrategyOptionsText(_, _)
StrategyOptionsText(strategyOptions, order) ==
    IF Len(order) = 0 THEN ""
    ELSE ", '" \o Head(order) \o "' : '" \o strategyOptions[Head(order)] \o "'"
         \o StrategyOptionsText(strategyOptions, Tail(order))

\* the text generateCreateOrUpdateKeyspaceQueryString renders
KeyspaceQueryText(name, create, replicationStrategy, strategyOptions, order, durableWrites) ==
    boolToAction(create) \o " KEYSPACE " \o name \o " WITH REPLICATION = { 'class' : '"
        \o replicationStrategy \o "'" \o StrategyOptionsText(strategyOptions, order)
        \o " } AND DURABLE_WRITES = " \o FormatBool(durableWrites)

\* the text resourceKeyspaceDelete renders
DropKeyspaceText(name) == "DROP KEYSPACE " \o name

\* the text resourceRoleCreateOrUpdate renders
RoleQueryText(createRole, name, password, login, superUser) ==
    boolToAction(createRole) \o " ROLE \"" \o name \o "\" WITH PASSWORD = '" \o password
        \o "' AND LOGIN = " \o FormatBool(login) \o " AND SUPERUSER = " \o FormatBool(superUser)

\* the text resourceRoleDelete renders
DropRoleText(name) == "DROP ROLE \"" \o name \o "\""

\* the text resourceTableCreate renders; order is the order in which range
\* enumerates the columns
TableQueryText(keyspace, name, columns, order, primaryKey, comment) ==
    LET colDefs == [i \in 1..Len(order) |-> "\"" \o order[i] \o "\" " \o columns[order[i]]]
        pkParts == [i \in 1..Len(primaryKey) |-> "\"" \o primaryKey[i] \o "\""]
        primaryKeyClause ==
            IF Len(pkParts) > 1
            THEN "PRIMARY KEY ((" \o pkParts[1] \o "), " \o Join(Tail(pkParts), ", ") \o ")"
            ELSE "PRIMARY KEY ((" \o Join(SubSeq(pkParts, 1, 1), ", ") \o "))"
        query == "CREATE TABLE \"" \o keyspace \o "\".\"" \o name \o "\" ("
                     \o Join(colDefs, ", ") \o ", " \o primaryKeyClause
    IN  IF comment # "" THEN query \o ") WITH comment = '" \o comment \o "'" ELSE query \o ")"

\* the text resourceTableDelete renders
DropTableText(keyspace, table) == "DROP TABLE \"" \o keyspace \o "\".\"" \o table \o "\""

\* what createGrantTpl, deleteGrantTpl and readGrantTpl have in common: the
\* privilege and the resource of the grant
GrantResourceText(grant) ==
    ToUpper(grant.Privilege) \o " ON " \o ToUpper(grant.ResourceType) \o " "
        \o (IF grant.KeyspaceName # ""
            THEN "\"" \o grant.KeyspaceName
                 \o (IF grant.TableName # "" THEN "." \o grant.TableName ELSE "") \o "\""
            ELSE ToUpper(grant.ResourceType))

createGrantTpl(grant) == "GRANT " \o GrantResourceText(grant) \o " TO \"" \o grant.Grantee \o "\""
deleteGrantTpl(grant) == "REVOKE " \o GrantResourceText(grant) \o " FROM \"" \o grant.Grantee \o "\""
readGrantTpl(grant) == "LIST " \o GrantResourceText(grant) \o " OF \"" \o grant.Grantee \o "\""

\* strings.Repeat
RECURSIVE Repeat(_, _)
Repeat(str, count) ==
    IF count = 0 THEN ""
    ELSE LET half == Repeat(str, count \div 2)
         IN  half \o half \o (IF count % 2 = 1 THEN str ELSE "")

\* the orders in which range can enumerate the keys of a map
Orders(keys) ==
    {o \in [1..Cardinality(keys) -> keys] : \A i, j \in DOMAIN o : o[i] = o[j] => i = j}

PureKinds ==
    {"password", "port", "strategy_options", "statement", "grant_id", "log", "interpolation"}

\* password inputs: a length around each limit of the validator, all
\* letters or with one quote character first or last
PasswordLengths == {0, 1, 39, 40, 41, 100, 511, 512, 513}
QuoteChars == {"'", "\""}

\* port inputs around each limit of the validator
Ports == {-1, 0, 1, 2, 9042, 65534, 65535, 65536}

\* strategy-option maps with 0..MaxOptions entries
FingerprintKeys == {"a", "b", "replication_factor", "b\""}
FingerprintMaps ==
    UNION {[keys -> {"1", "2"}] : keys \in {k \in SUBSET FingerprintKeys : Cardinality(k) <= MaxOptions}}

NoResult == [op |-> "none", ret |-> FALSE, out |-> ""]

InitPure ==
    /\ kind \in PureKinds
    /\ client = [PasswordHashAlgorithm |-> "bcrypt"]
    /\ d = [stmt |-> "none"]
    /\ cl = InitCluster
    /\ open = 0
    /\ last = NoResult

\* one application of a pure function to the input in, with its result
Apply(in, op, ret, out) ==
    /\ d' = in
    /\ last' = [op |-> op, ret |-> ret, out |-> out]
    /\ UNCHANGED <<kind, client, cl, open>>

ValidatePassword ==
    /\ kind = "password"
    /\ \E n \in PasswordLengths, q \in QuoteChars \cup {""}, first \in BOOLEAN :
          /\ q # "" => n >= 1
          /\ q = "" => first
          /\ LET letters == Repeat("a", IF q = "" THEN n ELSE n - 1)
                 pwd == IF first THEN q \o letters ELSE letters \o q
             IN  Apply([stmt |-> "password", password |-> pwd, length |-> n, quote |-> q],
                       "ValidateFunc", ValidPassword(pwd), "")

ValidatePort ==
    /\ kind = "port"
    /\ \E port \in Ports :
          Apply([stmt |-> "port", port |-> port], "ValidateFunc", ValidPort(port), "")

StateFunc ==
    /\ kind = "strategy_options"
    /\ \E v \in FingerprintMaps : \E order \in Orders(DOMAIN v) :
          Apply([stmt |-> "strategy_options", intent |-> v, order |-> order],
                "StateFunc", TRUE, strategyOptionsStateFunc(v, order))

RenderKeyspace ==
    /\ kind = "statement"
    /\ \E cfg \in KeyspaceConfigs, create \in BOOLEAN :
          /\ Cardinality(DOMAIN cfg.strategy_options) > 0
          /\ \E order \in Orders(DOMAIN cfg.strategy_options) :
                Apply([stmt |-> "keyspace", intent |-> [a |-> cfg, create |-> create], order |-> order],
                      "render", TRUE,
                      KeyspaceQueryText(cfg.name, create, cfg.replication_strategy,
                                        cfg.strategy_options, order, cfg.durable_writes))

RenderDropKeyspace ==
    /\ kind = "statement"
    /\ \E cfg \in KeyspaceConfigs :
          Apply([stmt |-> "drop_keyspace", intent |-> [a |-> cfg], order |-> <<>>],
                "render", TRUE, DropKeyspaceText(cfg.name))

RenderRole ==
    /\ kind = "statement"
    /\ \E cfg \in RoleConfigs, create \in BOOLEAN :
          Apply([stmt |-> "role", intent |-> [a |-> cfg, create |-> create], order |-> <<>>],
                "render", TRUE,
                RoleQueryText(create, cfg.name, cfg.password, cfg.login, cfg.super_user))

RenderDropRole ==
    /\ kind = "statement"
    /\ \E cfg \in RoleConfigs :
          Apply([stmt |-> "drop_role", intent |-> [a |-> cfg], order |-> <<>>],
                "render", TRUE, DropRoleText(cfg.name))

RenderTable ==
    /\ kind = "statement"
    /\ \E cfg \in TableConfigs : \E order \in Orders(DOMAIN cfg.columns) :
          Apply([stmt |-> "table", intent |-> [a |-> cfg], order |-> order],
                "render", TRUE,
                TableQueryText(cfg.keyspace_name, cfg.name, cfg.columns, order,
                               cfg.primary_key, cfg.comment))

RenderDropTable ==
    /\ kind = "statement"
    /\ \E cfg \in TableConfigs :
          Apply([stmt |-> "drop_table", intent |-> [a |-> cfg], order |-> <<>>],
                "render", TRUE, DropTableText(cfg.keyspace_name, cfg.name))

RenderGrant ==
    /\ kind = "statement"
    /\ \E cfg \in GrantConfigs, action \in {"GRANT", "REVOKE", "LIST"} :
          LET g == parseGrantData([id |-> "", a |-> cfg]) IN
          /\ g.err = NoErr
          /\ Apply([stmt |-> "grant", intent |-> [a |-> cfg, action |-> action], order |-> <<>>],
                   "render", TRUE,
                   CASE action = "GRANT" -> createGrantTpl(g.grant)
                     [] action = "REVOKE" -> deleteGrantTpl(g.grant)
                     [] action = "LIST" -> readGrantTpl(g.grant))

\* grant fields the grant schema accepts (it has no validators), with and
\* without the character the id is joined with
GrantIdConfigs ==
    {cfg \in [privilege : {"select", "SELECT", "modify"},
              grantee : {"migration", "migration|KEYSPACE"},
              resource_type : {"keyspace", "table"},
              keyspace_name : {"ks", "ks|x"},
              table_name : {"", "t", "x|t"}] :
        parseGrantData([id |-> "", a |-> cfg]).err = NoErr}

ComposeGrantId ==
    /\ kind = "grant_id"
    /\ \E cfg \in GrantIdConfigs :
          Apply([stmt |-> "grant_id", intent |-> [a |-> cfg], order |-> <<>>],
                "SetId", TRUE, GrantIdText(parseGrantData([id |-> "", a |-> cfg]).grant))

\* the lines resourceRoleCreateOrUpdate writes to the log: the statement,
\* once the session is open
resourceRoleCreateOrUpdateLog(a, createRole, fSession) ==
    IF fSession THEN <<>>
    ELSE <<"[INFO] Executing CQL: "
             \o RoleQueryText(createRole, a.name, a.password, a.login, a.super_user)>>

\* the lines resourceRoleDelete writes to the log
resourceRoleDeleteLog(id, fSession) ==
    IF fSession THEN <<>> ELSE <<"[INFO] Dropping role with CQL: " \o DropRoleText(id)>>

\* the lines configureProvider writes to the log; caOk is whether the root
\* CA, if one is given, parses
configureProviderLog(cfg, caOk) ==
    <<"[INFO] Initializing Cassandra/Scylla provider">>
        \o [i \in 1..Len(cfg.hosts) |-> "[DEBUG] Using host " \o cfg.hosts[i]]
        \o (IF cfg.use_ssl /\ cfg.root_ca # "" /\ ~caOk THEN <<>>
            ELSE <<"[INFO] Cassandra cluster configuration prepared. Hosts: ["
                     \o Join(cfg.hosts, " ") \o "], Port: " \o ToString(cfg.port)
                     \o ", Keyspace: " \o cfg.system_keyspace_name
                     \o ", SSL: " \o FormatBool(cfg.use_ssl)>>)

\* provider configurations
ProviderConfigs ==
    [username : {"cassandra"},
     password : {"provider-secret"},
     hosts : {<<"127.0.0.1">>, <<"node1", "node2">>},
     port : {p \in Ports : ValidPort(p)},
     use_ssl : BOOLEAN,
     root_ca : {"", "PEM"},
     system_keyspace_name : {"system_auth", "system"}]

LogRoleCreateOrUpdate ==
    /\ kind = "log"
    /\ \E cfg \in RoleConfigs, createRole \in BOOLEAN, fSession \in BOOLEAN :
          Apply([stmt |-> "role", intent |-> [a |-> cfg, create |-> createRole],
                 secret |-> cfg.password],
                "log", ~fSession, resourceRoleCreateOrUpdateLog(cfg, createRole, fSession))

LogRoleDelete ==
    /\ kind = "log"
    /\ \E cfg \in RoleConfigs, fSession \in BOOLEAN :
          Apply([stmt |-> "drop_role", intent |-> [a |-> cfg], secret |-> cfg.password],
                "log", ~fSession, resourceRoleDeleteLog(cfg.name, fSession))

LogConfigureProvider ==
    /\ kind = "log"
    /\ \E cfg \in ProviderConfigs, caOk \in BOOLEAN :
          Apply([stmt |-> "provider", intent |-> [a |-> cfg], secret |-> cfg.password],
                "log", ~(cfg.use_ssl /\ cfg.root_ca # "" /\ ~caOk), configureProviderLog(cfg, caOk))

\* the text of the existence query of resourceTableRead / resourceTableExists
TableExistsQueryText(keyspace, table) ==
    "SELECT table_name FROM system_schema.tables WHERE keyspace_name='" \o keyspace
        \o "' AND table_name='" \o table \o "'"

\* the values a statement puts between quotes, each with the quote
\* character around it: resourceTableCreate
TableQueryQuoted(a) ==
    {<<a.keyspace_name, "\"">>, <<a.name, "\"">>}
        \cup {<<col, "\"">> : col \in DOMAIN a.columns}
        \cup {<<a.primary_key[i], "\"">> : i \in DOMAIN a.primary_key}
        \cup (IF a.comment # "" THEN {<<a.comment, "'">>} ELSE {})

\* ... the existence query of the table
TableExistsQueryQuoted(keyspace, table) == {<<keyspace, "'">>, <<table, "'">>}

\* ... generateCreateOrUpdateKeyspaceQueryString
KeyspaceQueryQuoted(a) ==
    {<<a.replication_strategy, "'">>}
        \cup {<<key, "'">> : key \in DOMAIN a.strategy_options}
        \cup {<<a.strategy_options[key], "'">> : key \in DOMAIN a.strategy_options}

\* ... the grant templates
GrantQuoted(grant) == {<<grant.Grantee, "\"">>}

\* configurations the validators accept, quote characters included where
\* no validator refuses them
QuoteOptionMaps ==
    {[key \in {"replication_factor"} |-> "1"], [key \in {"replication_factor"} |-> "1'"],
     [key \in {"dc'1"} |-> "1"]}

QuoteKeyspaceConfigs ==
    {cfg \in [name : {"test", "te'st"},
              replication_strategy : {"SimpleStrategy", "Simple'Strategy"},
              strategy_options : QuoteOptionMaps,
              durable_writes : {TRUE}] :
        ValidKeyspaceName(cfg.name) /\ ValidReplicationStrategy(cfg.replication_strategy)}

QuoteTableConfigs ==
    {cfg \in [keyspace_name : {"ks", "k's"},
              name : {"t", "t'x", "t\"x"},
              columns : {[col \in {"id"} |-> "text"], [col \in {"i\"d"} |-> "text"]},
              primary_key : {<<"id">>, <<"i\"d">>},
              comment : {"", "c", "it's"}] :
        validKeyspaceRegex(cfg.keyspace_name) /\ ValidTableName(cfg.name)}

QuoteGrantConfigs ==
    {cfg \in [privilege : {"select"},
              grantee : {"migration", "mig\"ration"},
              resource_type : {"keyspace"},
              keyspace_name : {"ks"},
              table_name : {""}] :
        parseGrantData([id |-> "", a |-> cfg]).err = NoErr}

InterpolateKeyspace ==
    /\ kind = "interpolation"
    /\ \E cfg \in QuoteKeyspaceConfigs, create \in BOOLEAN :
          \E order \in Orders(DOMAIN cfg.strategy_options) :
             Apply([stmt |-> "keyspace", intent |-> [a |-> cfg, create |-> create]],
                   "interpolate", TRUE,
                   [text |-> KeyspaceQueryText(cfg.name, create, cfg.replication_strategy,
                                               cfg.strategy_options, order, cfg.durable_writes),
                    quoted |-> KeyspaceQueryQuoted(cfg)])

InterpolateTable ==
    /\ kind = "interpolation"
    /\ \E cfg \in QuoteTableConfigs : \E order \in Orders(DOMAIN cfg.columns) :
          Apply([stmt |-> "table", intent |-> [a |-> cfg]],
                "interpolate", TRUE,
                [text |-> TableQueryText(cfg.keyspace_name, cfg.name, cfg.columns, order,
                                         cfg.primary_key, cfg.comment),
                 quoted |-> TableQueryQuoted(cfg)])

InterpolateTableExists ==
    /\ kind = "interpolation"
    /\ \E cfg \in QuoteTableConfigs :
          LET parts == SplitN2(cfg.keyspace_name \o "." \o cfg.name) IN
          Apply([stmt |-> "table_exists", intent |-> [a |-> cfg]],
                "interpolate", TRUE,
                [text |-> TableExistsQueryText(parts[1], parts[2]),
                 quoted |-> TableExistsQueryQuoted(parts[1], parts[2])])

InterpolateGrant ==
    /\ kind = "interpolation"
    /\ \E cfg \in QuoteGrantConfigs :
          LET g == parseGrantData([id |-> "", a |-> cfg]).grant IN
          Apply([stmt |-> "grant", intent |-> [a |-> cfg, action |-> "GRANT"]],
                "interpolate", TRUE,
                [text |-> createGrantTpl(g), quoted |-> GrantQuoted(g)])

NextPure ==
    \/ InterpolateKeyspace \/ InterpolateTable \/ InterpolateTableExists \/ InterpolateGrant
    \/ ValidatePassword \/ ValidatePort \/ StateFunc
    \/ RenderKeyspace \/ RenderDropKeyspace \/ RenderRole \/ RenderDropRole
    \/ RenderTable \/ RenderDropTable \/ RenderGrant \/ ComposeGrantId
    \/ LogRoleCreateOrUpdate \/ LogRoleDelete \/ LogConfigureProvider

SpecPure == InitPure /\ [][NextPure]_vars

\* C15: the password validator accepts a password exactly when its length
\* is between 40 and 512 inclusive and it has no single or double quote.
C15_PasswordValidator ==
    (kind = "password" /\ last.op = "ValidateFunc")
        => /\ Len(d.password) = d.length
           /\ last.ret <=> (d.length >= 40 /\ d.length <= 512 /\ d.quote = "")

C15_Witness ==
    /\ kind = "password" /\ last.op = "ValidateFunc"
    /\ d.length = 512 /\ d.quote = "" /\ last.ret

C15_WitnessRejected ==
    /\ kind = "password" /\ last.op = "ValidateFunc"
    /\ d.length = 40 /\ d.quote = "'" /\ ~last.ret

\* C16: the port validator accepts exactly the integers 1 through 65535
\* inclusive.
C16_PortValidator ==
    (kind = "port" /\ last.op = "ValidateFunc")
        => (last.ret <=> (d.port >= 1 /\ d.port <= 65535))

\* C17: the strategy-options fingerprint does not depend on the order in
\* which the map's entries are enumerated: two applications of the StateFunc
\* to the same map give the same fingerprint.
C17_FingerprintOrderIndependent ==
    [][(kind = "strategy_options" /\ last.op = "StateFunc" /\ last'.op = "StateFunc"
          /\ d'.intent = d.intent) => last'.out = last.out]_vars

\* two entries enumerated against their sorted order
C17_Witness ==
    /\ kind = "strategy_options" /\ last.op = "StateFunc"
    /\ d.order = <<"b", "a">> /\ d.intent["a"] = "1" /\ d.intent["b"] = "2"
    /\ last.out = hash("\"a\"=\"1\", \"b\"=\"2\"")

\* strings.Contains
Contains(str, substr) ==
    \E i \in 1..(Len(str) - Len(substr) + 1) : SubSeq(str, i, i + Len(substr) - 1) = substr

\* the keyspace, table and role names of the statement rendered last
C18_Names ==
    CASE d.stmt \in {"keyspace", "drop_keyspace"} -> {d.intent.a.name}
      [] d.stmt \in {"role", "drop_role"} -> {d.intent.a.name}
      [] d.stmt \in {"table", "drop_table"} -> {d.intent.a.keyspace_name, d.intent.a.name}
      [] d.stmt = "grant" ->
           {d.intent.a.grantee, d.intent.a.keyspace_name, d.intent.a.table_name} \ {""}

\* the literal values of the statement rendered last
C18_Values ==
    CASE d.stmt = "keyspace" ->
           {d.intent.a.strategy_options[key] : key \in DOMAIN d.intent.a.strategy_options}
      [] d.stmt = "role" -> {d.intent.a.password}
      [] OTHER -> {}

\* name stands in the text between one opening and one closing double quote
C18_WrappedOnce(text, name) ==
    LET quoted == "\"" \o name \o "\"" IN
    /\ Contains(text, quoted)
    /\ ~Contains(text, "\"" \o quoted)
    /\ ~Contains(text, quoted \o "\"")

\* C18: in every rendered statement each keyspace, table and role name
\* stands between exactly one opening and one closing double quote, and
\* each literal value between single quotes.
C18_StatementQuoting ==
    (kind = "statement" /\ last.op = "render")
        => /\ \A name \in C18_Names : C18_WrappedOnce(last.out, name)
           /\ \A value \in C18_Values : Contains(last.out, "'" \o value \o "'")

\* C19: rendering is deterministic: two renderings of the same statement
\* from the same field values and action flag give the same text.
C19_RenderingDeterministic ==
    [][(kind = "statement" /\ last.op = "render" /\ last'.op = "render"
          /\ d'.stmt = d.stmt /\ d'.intent = d.intent) => last'.out = last.out]_vars

\* the existence query of the Exists that ran last failed at the driver
C20_ExistsQueryFailed ==
    last.op = "Exists" /\ last.fault /\ "query" \in Range(last.ev)

\* C20: when the existence query fails at the driver, Exists of a table,
\* role or grant returns the error; it never answers false with no error.
C20_ExistsReturnsDriverError ==
    (kind \in {"table", "role", "grant"} /\ C20_ExistsQueryFailed) => last.err # NoErr

\* C21: whenever Create of a keyspace, table, role or grant (called on a
\* resource without an id) returns an error, the id is still empty.
C21_FailedCreateLeavesNoId ==
    (last.op = "Create" /\ last.pre.id = "" /\ last.err # NoErr) => d.id = ""

\* C22: the id keyspace.table that Create records splits at its first '.'
\* into exactly the keyspace name and the table name of the configuration,
\* whatever dots the table name has; Read and Exists after the Create find
\* that table and Delete drops it.
C22_TableIdSplits ==
    /\ (kind = "table" /\ last.after = "created" /\ last.err = NoErr /\ ~last.fault)
          => /\ SplitN2(d.id) = <<d.a.keyspace_name, d.a.name>>
             /\ d.a.keyspace_name = last.pre.a.keyspace_name /\ d.a.name = last.pre.a.name
             /\ <<d.a.keyspace_name, d.a.name>> \in cl.tables
             /\ last.op = "Exists" => last.ret
    /\ (kind = "table" /\ last.after = "deleted" /\ last.op = "Delete")
          => <<last.pre.a.keyspace_name, last.pre.a.name>> \notin cl.tables

\* a table whose name has a '.' of its own, read back after its Create
C22_Witness ==
    /\ kind = "table" /\ last.after = "created" /\ last.op = "Read" /\ last.err = NoErr
    /\ ~last.fault /\ d.id = "ks.a.b" /\ d.a.keyspace_name = "ks" /\ d.a.name = "a.b"

\* what identifies a grant: grantee, upper-cased resource type, keyspace,
\* table, upper-cased privilege
C23_Key(a) ==
    <<a.grantee, ToUpper(a.resource_type), a.keyspace_name, a.table_name, ToUpper(a.privilege)>>

\* C23: the grant id is injective: two grants that differ in grantee,
\* upper-cased resource type, keyspace, table or upper-cased privilege never
\* get the same id.
C23_GrantIdInjective ==
    [][(kind = "grant_id" /\ last.op = "SetId" /\ last'.op = "SetId"
          /\ C23_Key(d.intent.a) # C23_Key(d'.intent.a)) => last'.out # last.out]_vars

\* C24: no line written to the log during provider configuration or a role
\* operation contains the provider password or the role's password.
C24_NoCredentialInLog ==
    (kind = "log" /\ last.op = "log")
        => \A i \in DOMAIN last.out : ~Contains(last.out[i], d.secret)

\* C25: for every combination of field values the validators accept, no
\* value a statement puts between single quotes has a single quote and no
\* identifier it puts between double quotes has a double quote.
C25_NoQuoteInQuoted ==
    (kind = "interpolation" /\ last.op = "interpolate")
        => \A q \in last.out.quoted : ~ContainsChar(q[1], q[2])

====
